---- MODULE Spec2Model ----
(***************************************************************************)
(* Model of photo-organizer: the EXIF reader/writer of src/exif.rs and the *)
(* per-file pipeline of src/main.rs (change_names -> print_date).          *)
(*                                                                         *)
(* Byte buffers are sequences of naturals 0..255, indexed from 1 in TLA+;  *)
(* every offset below is the 0-based offset of the Rust code, and          *)
(* Slice(s, a, b) is the Rust slice s[a..b].  A Rust panic (slice index    *)
(* out of range, copy_from_slice length mismatch, unwrap of None) is an    *)
(* explicit outcome of every operator that can raise it.                   *)
(***************************************************************************)
EXTENDS Integers, Sequences, FiniteSets, TLC

\* ------------------------------------------------------------------------
\* Bounds of the model
\* ------------------------------------------------------------------------
\* Largest number of tag fields generated in the 0th IFD of an input file.
MaxEntries == 2
\* Largest number of directory entries one run of change_names visits.
MaxFiles == 2

\* ------------------------------------------------------------------------
\* Program constants (src/exif.rs)
\* ------------------------------------------------------------------------
OFFSET_TIFF_HEADER == 10
ORIENTATION == 274
EXIF_IFD_POINTER == 34665
DATE_TIME_ORIGINAL == 36867

BigEndian == "BigEndian"
LittleEndian == "LittleEndian"
ByteOrder == {BigEndian, LittleEndian}

\* ------------------------------------------------------------------------
\* Results: Option / Result / panic
\* ------------------------------------------------------------------------
\* A returned slice is (offset, length) into the buffer it borrows from.
NoneSlice == [tag |-> "None", off |-> 0, len |-> 0]
SomeSlice(o, l) == [tag |-> "Some", off |-> o, len |-> l]
\* "index out of range" / "range end out of range" panics of slice indexing
PanicIndexSlice == [tag |-> "PanicIndex", off |-> 0, len |-> 0]

\* A returned value: val is a byte sequence, or <<n>> for an integer.
None == [tag |-> "None", val |-> <<>>]
Some(v) == [tag |-> "Some", val |-> v]
Ok(v) == [tag |-> "Ok", val |-> v]
Err == [tag |-> "Err", val |-> <<>>]
PanicIndex == [tag |-> "PanicIndex", val |-> <<>>]
\* copy_from_slice with source and destination of different lengths
PanicLen == [tag |-> "PanicLen", val |-> <<>>]
\* Option::unwrap on None, Result::unwrap on Err
PanicUnwrap == [tag |-> "PanicUnwrap", val |-> <<>>]

PanicTags == {"PanicIndex", "PanicLen", "PanicUnwrap"}
IsPanic(r) == r.tag \in PanicTags

\* ------------------------------------------------------------------------
\* Slices
\* ------------------------------------------------------------------------
\* s[a..b] is valid in Rust iff a <= b and b <= s.len()
InRange(s, a, b) == a <= b /\ b <= Len(s)
Slice(s, a, b) == SubSeq(s, a + 1, b)

\* ------------------------------------------------------------------------
\* decode_u16 / decode_u32.  -1 stands for the panic of copy_from_slice
\* when the slice has not exactly 2 (4) bytes.
\* ------------------------------------------------------------------------
DecodePanic == -1

decode_u16(slice, byte_order) ==
  IF Len(slice) # 2 THEN DecodePanic
  ELSE IF byte_order = BigEndian
       THEN slice[1] * 256 + slice[2]
       ELSE slice[2] * 256 + slice[1]

decode_u32(slice, byte_order) ==
  IF Len(slice) # 4 THEN DecodePanic
  ELSE IF byte_order = BigEndian
       THEN ((slice[1] * 256 + slice[2]) * 256 + slice[3]) * 256 + slice[4]
       ELSE ((slice[4] * 256 + slice[3]) * 256 + slice[2]) * 256 + slice[1]

\* u16::to_be_bytes / to_le_bytes
u16_to_bytes(v, byte_order) ==
  IF byte_order = BigEndian
  THEN << v \div 256, v % 256 >>
  ELSE << v % 256, v \div 256 >>

\* ASCII identifiers
EXIF_ID == << 69, 120, 105, 102, 0 >>
JFIF_ID == << 74, 70, 73, 70, 0 >>

\* ------------------------------------------------------------------------
\* get_app1 (exif.rs 104-116): the loop body from index i on
\* ------------------------------------------------------------------------
RECURSIVE get_app1_from(_, _)
get_app1_from(jpeg_binary, i) ==
  IF i >= Len(jpeg_binary) - 1 THEN NoneSlice
  ELSE IF Slice(jpeg_binary, i, i + 2) = << 255, 225 >>
       THEN IF ~InRange(jpeg_binary, i + 2, i + 4) THEN PanicIndexSlice
            ELSE LET segment_len ==
                       decode_u16(Slice(jpeg_binary, i + 2, i + 4), BigEndian)
                 IN IF ~InRange(jpeg_binary, i + 4, i + 9) THEN PanicIndexSlice
                    ELSE IF Slice(jpeg_binary, i + 4, i + 9) = EXIF_ID
                         THEN IF InRange(jpeg_binary, i, i + segment_len + 2)
                              THEN SomeSlice(i, segment_len + 2)
                              ELSE PanicIndexSlice
                         ELSE get_app1_from(jpeg_binary, i + 1)
       ELSE get_app1_from(jpeg_binary, i + 1)

\* On an empty buffer `len() - 1` underflows: a debug build panics on the
\* subtraction, a release build wraps and panics on jpeg_binary[0..=1].
get_app1(jpeg_binary) ==
  IF Len(jpeg_binary) = 0 THEN PanicIndexSlice
  ELSE get_app1_from(jpeg_binary, 0)

\* ------------------------------------------------------------------------
\* next_app0_index (exif.rs 78-100)
\* ------------------------------------------------------------------------
\* Mutation: the 2 bytes of the marker are not counted
app0_end_mut(i, segment_len) == i + segment_len

\* `next_app0 = i + segment_len + 2` (exif.rs 93)
app0_end(i, segment_len) == i + segment_len + 2

RECURSIVE next_app0_from(_, _)
next_app0_from(b, i) ==
  IF i >= Len(b) - 1 THEN Ok(<< 2 >>)
  ELSE IF Slice(b, i, i + 2) = << 255, 224 >>
       THEN IF ~InRange(b, i + 2, i + 4) THEN PanicIndex
            ELSE LET segment_len == decode_u16(Slice(b, i + 2, i + 4), BigEndian)
                 IN IF ~InRange(b, i + 4, i + 9) THEN PanicIndex
                    ELSE IF Slice(b, i + 4, i + 9) = JFIF_ID
                         THEN Ok(<< app0_end(i, segment_len) >>)
                         ELSE next_app0_from(b, i + 1)
       ELSE next_app0_from(b, i + 1)

next_app0_index(non_app1_binary) ==
  IF ~InRange(non_app1_binary, 0, 2) THEN PanicIndex
  ELSE IF Slice(non_app1_binary, 0, 2) # << 255, 216 >> THEN Err
       ELSE next_app0_from(non_app1_binary, 2)

\* ------------------------------------------------------------------------
\* read_tag (exif.rs 123-164)
\* ------------------------------------------------------------------------
\* Offsets are usize: with OFFSET_TIFF_HEADER, a u32 offset and at most 4 times a
\* u32 count, no sum or product below reaches 2^64, so none wraps.
\* value_bytes' match on value_type: 0 stands for `_ => return None`
type_width(value_type) ==
  CASE value_type = 2 -> 1
    [] value_type = 3 -> 2
    [] value_type = 4 -> 4
    [] OTHER -> 0

\* Mutation: a 4-byte value is taken for an offset
is_inline_mut(value_bytes) == value_bytes < 4

\* `if value_bytes <= 4` (exif.rs 150)
is_inline(value_bytes) == value_bytes <= 4

\* The body executed for the tag field at tag_field_offset once its tag id
\* matched (exif.rs 136-158).
read_tag_value(app1, tag_field_offset, byte_order) ==
  IF ~InRange(app1, tag_field_offset + 2, tag_field_offset + 4) THEN PanicIndexSlice
  ELSE IF ~InRange(app1, tag_field_offset + 4, tag_field_offset + 8) THEN PanicIndexSlice
  ELSE LET value_type ==
             decode_u16(Slice(app1, tag_field_offset + 2, tag_field_offset + 4), byte_order)
           count ==
             decode_u32(Slice(app1, tag_field_offset + 4, tag_field_offset + 8), byte_order)
           value_bytes == type_width(value_type) * count
       IN IF type_width(value_type) = 0 THEN NoneSlice
          ELSE IF is_inline(value_bytes)
               THEN IF InRange(app1, tag_field_offset + 8, tag_field_offset + 8 + value_bytes)
                    THEN SomeSlice(tag_field_offset + 8, value_bytes)
                    ELSE PanicIndexSlice
               ELSE IF ~InRange(app1, tag_field_offset + 8, tag_field_offset + 12)
                    THEN PanicIndexSlice
                    ELSE LET value_offset ==
                               decode_u32(Slice(app1, tag_field_offset + 8,
                                                tag_field_offset + 12), byte_order)
                         IN IF InRange(app1, OFFSET_TIFF_HEADER + value_offset,
                                       OFFSET_TIFF_HEADER + value_offset + value_bytes)
                            THEN SomeSlice(OFFSET_TIFF_HEADER + value_offset, value_bytes)
                            ELSE PanicIndexSlice

\* Mutation: the scan goes on after a match and the last matching field wins
RECURSIVE read_tag_loop_mut(_, _, _, _, _, _)
read_tag_loop_mut(app1, tag_field_offset, k, tag_num, tag, byte_order) ==
  IF k >= tag_num THEN NoneSlice
  ELSE IF ~InRange(app1, tag_field_offset, tag_field_offset + 2) THEN PanicIndexSlice
  ELSE LET later == read_tag_loop_mut(app1, tag_field_offset + 12, k + 1, tag_num,
                                      tag, byte_order)
       IN IF Slice(app1, tag_field_offset, tag_field_offset + 2)
               = u16_to_bytes(tag, byte_order)
             /\ later = NoneSlice
          THEN read_tag_value(app1, tag_field_offset, byte_order)
          ELSE later

\* The scanning loop (exif.rs 133-163): k tag fields already visited.
RECURSIVE read_tag_loop(_, _, _, _, _, _)
read_tag_loop(app1, tag_field_offset, k, tag_num, tag, byte_order) ==
  IF k >= tag_num THEN NoneSlice
  ELSE IF ~InRange(app1, tag_field_offset, tag_field_offset + 2) THEN PanicIndexSlice
  ELSE IF Slice(app1, tag_field_offset, tag_field_offset + 2) = u16_to_bytes(tag, byte_order)
       THEN read_tag_value(app1, tag_field_offset, byte_order)
       ELSE read_tag_loop(app1, tag_field_offset + 12, k + 1, tag_num, tag, byte_order)

read_tag(app1, ifd_offset, tag, byte_order) ==
  LET tmp == OFFSET_TIFF_HEADER + ifd_offset
  IN IF ~InRange(app1, tmp, tmp + 2) THEN PanicIndexSlice
     ELSE LET tag_num == decode_u16(Slice(app1, tmp, tmp + 2), byte_order)
          IN read_tag_loop(app1, tmp + 2, 0, tag_num, tag, byte_order)

\* ------------------------------------------------------------------------
\* Byte-order detection and the 0th IFD offset, the common prologue of
\* clear_orientation, get_date_time_original and get_orientation
\* ------------------------------------------------------------------------
\* `if app1[10..12] == [0x4D, 0x4D] { BigEndian } else { LittleEndian }`
detect_byte_order(app1) ==
  IF Slice(app1, OFFSET_TIFF_HEADER, OFFSET_TIFF_HEADER + 2) = << 77, 77 >>
  THEN BigEndian
  ELSE LittleEndian

\* TRUE iff both slice expressions of the prologue are in range
prologue_in_range(app1) ==
  /\ InRange(app1, OFFSET_TIFF_HEADER, OFFSET_TIFF_HEADER + 2)
  /\ InRange(app1, OFFSET_TIFF_HEADER + 4, OFFSET_TIFF_HEADER + 8)

offset_0th_ifd(app1) ==
  decode_u32(Slice(app1, OFFSET_TIFF_HEADER + 4, OFFSET_TIFF_HEADER + 8),
             detect_byte_order(app1))

\* The bytes a returned slice views
SliceOf(buf, sl) == Slice(buf, sl.off, sl.off + sl.len)

\* ------------------------------------------------------------------------
\* get_orientation (exif.rs 194-216)
\* ------------------------------------------------------------------------
\* Mutation: the upper edge 8 is rejected
orientation_in_domain_mut(orientation) == ~(orientation = 0 \/ orientation >= 8)

\* `if orientation == 0 || orientation > 8 { None } else { Some(..) }`
orientation_in_domain(orientation) == ~(orientation = 0 \/ orientation > 8)

get_orientation(jpeg_binary) ==
  LET a == get_app1(jpeg_binary)
  IN IF a.tag = "None" THEN None
     ELSE IF a.tag # "Some" THEN PanicIndex
     ELSE LET app1 == SliceOf(jpeg_binary, a)
          IN IF ~prologue_in_range(app1) THEN PanicIndex
             ELSE LET byte_order == detect_byte_order(app1)
                      tmp == read_tag(app1, offset_0th_ifd(app1), ORIENTATION, byte_order)
                  IN IF tmp.tag = "None" THEN None
                     ELSE IF tmp.tag # "Some" THEN PanicIndex
                     ELSE LET orientation == decode_u16(SliceOf(app1, tmp), byte_order)
                          IN IF orientation = DecodePanic THEN PanicLen
                             ELSE IF orientation_in_domain(orientation)
                                  THEN Some(<< orientation >>)
                                  ELSE None

\* ------------------------------------------------------------------------
\* get_date_time_original (exif.rs 169-191)
\* ------------------------------------------------------------------------
get_date_time_original(jpeg_binary) ==
  LET a == get_app1(jpeg_binary)
  IN IF a.tag = "None" THEN None
     ELSE IF a.tag # "Some" THEN PanicIndex
     ELSE LET app1 == SliceOf(jpeg_binary, a)
          IN IF ~prologue_in_range(app1) THEN PanicIndex
             ELSE LET byte_order == detect_byte_order(app1)
                      p == read_tag(app1, offset_0th_ifd(app1), EXIF_IFD_POINTER, byte_order)
                  IN IF p.tag = "None" THEN None
                     ELSE IF p.tag # "Some" THEN PanicIndex
                     ELSE LET offset_exif_ifd == decode_u32(SliceOf(app1, p), byte_order)
                          IN IF offset_exif_ifd = DecodePanic THEN PanicLen
                             ELSE LET tmp == read_tag(app1, offset_exif_ifd,
                                                      DATE_TIME_ORIGINAL, byte_order)
                                  IN IF tmp.tag = "None" THEN None
                                     ELSE IF tmp.tag # "Some" THEN PanicIndex
                                     ELSE IF tmp.len < 19 THEN PanicIndex
                                     ELSE Some(Slice(app1, tmp.off, tmp.off + 19))

\* ------------------------------------------------------------------------
\* clear_orientation (exif.rs 44-75)
\* ------------------------------------------------------------------------
\* app1[off] = tmp[0]; app1[off + 1] = tmp[1];
write2(app1, off, tmp) ==
  [k \in 1..Len(app1) |->
     IF k = off + 1 THEN tmp[1] ELSE IF k = off + 2 THEN tmp[2] ELSE app1[k]]

\* Mutation: 1 is always written big-endian
no_rotation_bytes_mut(byte_order) == u16_to_bytes(1, BigEndian)

\* `1_u16.to_be_bytes()` / `1_u16.to_le_bytes()` per byte order
no_rotation_bytes(byte_order) == u16_to_bytes(1, byte_order)

clear_orientation(jpeg_binary) ==
  LET a == get_app1(jpeg_binary)
  IN IF a.tag = "None" THEN PanicUnwrap
     ELSE IF a.tag # "Some" THEN PanicIndex
     ELSE LET app1 == SliceOf(jpeg_binary, a)
          IN IF ~prologue_in_range(app1) THEN PanicIndex
             ELSE LET byte_order == detect_byte_order(app1)
                      orientation_slice ==
                        read_tag(app1, offset_0th_ifd(app1), ORIENTATION, byte_order)
                  IN IF orientation_slice.tag = "None" THEN Ok(app1)
                     ELSE IF orientation_slice.tag # "Some" THEN PanicIndex
                     ELSE LET orientation_offset == orientation_slice.off
                          IN IF orientation_offset + 1 >= Len(app1) THEN PanicIndex
                             ELSE Ok(write2(app1, orientation_offset,
                                            no_rotation_bytes(byte_order)))

\* ------------------------------------------------------------------------
\* get_date_time (main.rs 154-165)
\* ------------------------------------------------------------------------
\* String::from_utf8 succeeds on ASCII; the inputs of the model hold no
\* byte above 127 in a date value, a non-ASCII byte is reported as the Err
\* that the unwrap turns into a panic.
IsAscii(bytes) == \A k \in 1..Len(bytes) : bytes[k] < 128

get_date_time(jpeg_binary) ==
  LET r == get_date_time_original(jpeg_binary)
  IN IF r.tag # "Some" THEN r
     ELSE LET v == r.val
              \* val[4] = '-'; val[7] = '-'; val[10] = '_';
              \* val[13] = val[14]; val[14] = val[15];  then val[..15]
              val == [k \in 1..15 |->
                        CASE k = 5 -> 45
                          [] k = 8 -> 45
                          [] k = 11 -> 95
                          [] k = 14 -> v[15]
                          [] k = 15 -> v[16]
                          [] OTHER -> v[k]]
          IN IF IsAscii(val) THEN Some(val) ELSE PanicUnwrap

\* ------------------------------------------------------------------------
\* The APP1 insertion of print_date (main.rs 141-147)
\* ------------------------------------------------------------------------
\* Mutation: the segment is written after the whole file
concat_at_mut(without_app1_binary, next_app0, app1) ==
  without_app1_binary \o app1

\* The three w.write calls: bytes [..next_app0], app1, bytes [next_app0..]
concat_at(without_app1_binary, next_app0, app1) ==
  Slice(without_app1_binary, 0, next_app0) \o app1
    \o Slice(without_app1_binary, next_app0, Len(without_app1_binary))

splice_app1(without_app1_binary, app1) ==
  LET r == next_app0_index(without_app1_binary)
  IN IF r.tag = "Err" THEN PanicUnwrap
     ELSE IF r.tag # "Ok" THEN PanicIndex
     ELSE LET next_app0 == r.val[1]
          IN IF ~InRange(without_app1_binary, 0, next_app0) THEN PanicIndex
             ELSE Ok(concat_at(without_app1_binary, next_app0, app1))

\* ========================================================================
\* Input files: JPEG buffers assembled from marker segments
\* ========================================================================
u32_to_bytes(v, byte_order) ==
  LET b0 == v % 256
      b1 == (v \div 256) % 256
      b2 == (v \div 65536) % 256
      b3 == (v \div 16777216) % 256
  IN IF byte_order = BigEndian THEN << b3, b2, b1, b0 >> ELSE << b0, b1, b2, b3 >>

\* Value types the reader decodes (exif.rs 144-146)
ASCII == 2
SHORT == 3
LONG == 4
\* A value type the reader does not decode (any type but 2, 3, 4)
UNDEFINED == 7
\* A tag the program never asks for by itself (0x010F, Make)
MAKE == 271

\* Kinds of tag field an input's 0th IFD is built from
EntryKinds == {"ori", "oriBad", "ptr", "ptrBad", "make4", "make5"}
\* Stored Orientation values: both edges of the domain 1..8, and 6
OriVals == {0, 1, 6, 8, 9}
\* The value of a second (duplicate) Orientation field
DupOriVal == 3

\* An IFD offset that lies past the end of every generated segment
BAD_OFFSET == 65000

DATE_VALUE ==
  << 50, 48, 49, 53, 58, 48, 57, 58, 50, 55, 32, 49, 49, 58, 52, 51, 58, 49, 49, 0 >>
MAKE4_VALUE == << 67, 97, 109, 0 >>
MAKE5_VALUE == << 78, 105, 107, 111, 110 >>

TagField(bo, tag, type, count, value4) ==
  u16_to_bytes(tag, bo) \o u16_to_bytes(type, bo) \o u32_to_bytes(count, bo) \o value4

RECURSIVE Flatten(_)
Flatten(ss) == IF ss = <<>> THEN <<>> ELSE Head(ss) \o Flatten(Tail(ss))

\* An EXIF APP1 segment: marker, length, "Exif\0\0", TIFF header, 0th IFD
\* with the fields `kinds`, Exif IFD (holding DateTimeOriginal iff date),
\* then the values stored by offset.
ExifSegment(bo, kinds, ov, date) ==
  LET n == Len(kinds)
      m == IF date THEN 1 ELSE 0
      E == 14 + 12 * n
      D == E + 6 + 12 * m
      M == D + 20 * m
      hasMake5 == \E k \in 1..n : kinds[k] = "make5"
      T == M + (IF hasMake5 THEN 5 ELSE 0)
      oriBefore(k) == \E j \in 1..(k - 1) : kinds[j] = "ori"
      field(k) ==
        CASE kinds[k] = "ori" ->
               TagField(bo, ORIENTATION, SHORT, 1,
                        u16_to_bytes(IF oriBefore(k) THEN DupOriVal ELSE ov, bo)
                          \o << 0, 0 >>)
          [] kinds[k] = "oriBad" ->
               TagField(bo, ORIENTATION, UNDEFINED, 1, << 6, 0, 0, 0 >>)
          [] kinds[k] = "ptr" ->
               TagField(bo, EXIF_IFD_POINTER, LONG, 1, u32_to_bytes(E, bo))
          [] kinds[k] = "ptrBad" ->
               \* a corrupt pointer: the Exif IFD offset lies past the segment
               TagField(bo, EXIF_IFD_POINTER, LONG, 1, u32_to_bytes(BAD_OFFSET, bo))
          [] kinds[k] = "make4" ->
               TagField(bo, MAKE, ASCII, 4, MAKE4_VALUE)
          [] OTHER ->
               TagField(bo, MAKE, ASCII, 5, u32_to_bytes(M, bo))
      tiff ==
        (IF bo = BigEndian THEN << 77, 77 >> ELSE << 73, 73 >>)
          \o u16_to_bytes(42, bo) \o u32_to_bytes(8, bo)
          \o u16_to_bytes(n, bo) \o Flatten([k \in 1..n |-> field(k)])
          \o << 0, 0, 0, 0 >>
          \o u16_to_bytes(m, bo)
          \o (IF date
              THEN TagField(bo, DATE_TIME_ORIGINAL, ASCII, 20, u32_to_bytes(D, bo))
              ELSE <<>>)
          \o << 0, 0, 0, 0 >>
          \o (IF date THEN DATE_VALUE ELSE <<>>)
          \o (IF hasMake5 THEN MAKE5_VALUE ELSE <<>>)
  IN << 255, 225 >> \o u16_to_bytes(8 + T, BigEndian)
       \o EXIF_ID \o << 0 >> \o tiff

SOI == << 255, 216 >>
APP0_JFIF ==
  << 255, 224, 0, 16 >> \o JFIF_ID \o << 1, 1, 0, 0, 1, 0, 1, 0, 0 >>
APP0_JFXX == << 255, 224, 0, 7, 74, 70, 88, 88, 0 >>
APP1_XMP == << 255, 225, 0, 7, 104, 116, 116, 112, 58 >>
SCAN_TAIL == << 255, 219, 0, 2, 255, 217 >>

App0Of(kind) ==
  CASE kind = "none" -> <<>>
    [] kind = "jfif" -> APP0_JFIF
    [] kind = "jfxx" -> APP0_JFXX
    [] OTHER -> APP0_JFXX \o APP0_JFIF

Heads == { SOI, << 0, 0 >>, <<>> }
App0Kinds == {"none", "jfif", "jfxx", "jfxx_jfif"}
\* Trailing bytes of a file: nothing, a complete segment, or a file cut
\* right after (or inside) an FFE1 / FFE0 marker
Tails ==
  { <<>>, SCAN_TAIL, << 255 >>, << 255, 225 >>, << 255, 225, 0, 8, 69 >>,
    << 255, 224 >> }

SimpleExif == ExifSegment(LittleEndian, << "ori", "ptr" >>, 6, TRUE)

SeqsUpTo(S, n) == UNION { [1..k -> S] : k \in 0..n }

\* Framing cases: every head x APP0 x XMP x EXIF x tail
FramingInputs ==
  { h \o App0Of(a) \o (IF x THEN APP1_XMP ELSE <<>>) \o e \o t :
      h \in Heads, a \in App0Kinds, x \in BOOLEAN,
      e \in { <<>>, SimpleExif }, t \in Tails }

\* EXIF cases: every 0th IFD of at most MaxEntries fields, both byte orders
ExifInputs ==
  { SOI \o APP0_JFIF \o ExifSegment(bo, kinds, ov, date) \o SCAN_TAIL :
      bo \in ByteOrder, kinds \in SeqsUpTo(EntryKinds, MaxEntries),
      ov \in OriVals, date \in BOOLEAN }

Inputs == FramingInputs \cup ExifInputs

\* What the external codec writes on img.save: a JPEG without APP1,
\* starting with SOI, with or without a JFIF APP0 segment.
ReEncoded ==
  { SOI \o App0Of(a) \o SCAN_TAIL : a \in App0Kinds }

\* ========================================================================
\* State
\* ========================================================================
VARIABLES
  jpeg_file,      \* the buffer under processing (main.rs 193: fs::read)
  fn,             \* the library function applied to jpeg_file ("start": none yet)
  arg,            \* read_tag's arguments [tag, ifd_offset]
  without_exif,   \* the APP1-less JPEG handed to the APP1 insertion
  ret,            \* what the function returned
  ret_off,        \* offset of a returned slice in the buffer it borrows from
  pc,             \* position of change_names / print_date
  args,           \* command line flags [date, keep_exif]
  remaining,      \* directory entries change_names has not visited yet
  date_time,      \* get_date_time's result for the current file
  orientation,    \* get_orientation's result in print_date
  disk_file,      \* the bytes of the current file on disk
  app1_segment,   \* clear_orientation's result in print_date
  panic           \* [at, tag] of the panic that ended the process

vars == << jpeg_file, fn, arg, without_exif, ret, ret_off, pc, args, remaining,
           date_time, orientation, disk_file, app1_segment, panic >>

apiVars == << jpeg_file, fn, arg, without_exif, ret, ret_off >>
runVars == << pc, args, remaining, date_time, orientation, disk_file,
              app1_segment, panic >>

NoPanic == [at |-> "", tag |-> ""]
NoArg == [tag |-> 0, ifd_offset |-> 0]

\* ========================================================================
\* Specification SpecApi: each library function applied to each input
\* ========================================================================
InitApi ==
  /\ jpeg_file \in Inputs
  /\ fn = "start"
  /\ arg = NoArg
  /\ without_exif = <<>>
  /\ ret = None
  /\ ret_off = 0
  /\ pc = "idle"
  /\ args = [date |-> FALSE, keep_exif |-> FALSE]
  /\ remaining = 0
  /\ date_time = None
  /\ orientation = None
  /\ disk_file = <<>>
  /\ app1_segment = <<>>
  /\ panic = NoPanic

\* A slice result as the bytes it views
SliceResult(buf, sl) ==
  IF sl.tag = "Some" THEN Some(SliceOf(buf, sl)) ELSE [tag |-> sl.tag, val |-> <<>>]

CallGetApp1 ==
  /\ fn = "start"
  /\ fn' = "get_app1"
  /\ ret' = SliceResult(jpeg_file, get_app1(jpeg_file))
  /\ ret_off' = get_app1(jpeg_file).off
  /\ UNCHANGED << jpeg_file, arg, without_exif, runVars >>

CallNextApp0Index ==
  /\ fn = "start"
  /\ fn' = "next_app0_index"
  /\ ret' = next_app0_index(jpeg_file)
  /\ UNCHANGED << jpeg_file, arg, without_exif, ret_off, runVars >>

CallGetOrientation ==
  /\ fn = "start"
  /\ fn' = "get_orientation"
  /\ ret' = get_orientation(jpeg_file)
  /\ UNCHANGED << jpeg_file, arg, without_exif, ret_off, runVars >>

CallGetDateTimeOriginal ==
  /\ fn = "start"
  /\ fn' = "get_date_time_original"
  /\ ret' = get_date_time_original(jpeg_file)
  /\ UNCHANGED << jpeg_file, arg, without_exif, ret_off, runVars >>

CallClearOrientation ==
  /\ fn = "start"
  /\ fn' = "clear_orientation"
  /\ ret' = clear_orientation(jpeg_file)
  /\ UNCHANGED << jpeg_file, arg, without_exif, ret_off, runVars >>

\* The APP1 segment of a buffer in which get_app1 finds one
App1Of(buf) == SliceOf(buf, get_app1(buf))
HasTiffHeader(buf) ==
  get_app1(buf).tag = "Some" /\ prologue_in_range(App1Of(buf))

\* The IFD offsets read_tag is called with: the 0th IFD's, and the Exif
\* IFD's when the 0th IFD holds a pointer to it
IfdOffsets(seg) ==
  LET bo == detect_byte_order(seg)
      p == read_tag(seg, offset_0th_ifd(seg), EXIF_IFD_POINTER, bo)
  IN { offset_0th_ifd(seg) } \cup
     (IF p.tag = "Some" /\ p.len = 4 THEN { decode_u32(SliceOf(seg, p), bo) } ELSE {})

Tags == { ORIENTATION, EXIF_IFD_POINTER, DATE_TIME_ORIGINAL, MAKE }

\* read_tag on the APP1 segment of jpeg_file, in its byte order
CallReadTag ==
  /\ fn = "start"
  /\ HasTiffHeader(jpeg_file)
  /\ \E tag \in Tags, ifd_offset \in IfdOffsets(App1Of(jpeg_file)) :
       LET seg == App1Of(jpeg_file)
           r == read_tag(seg, ifd_offset, tag, detect_byte_order(seg))
       IN /\ arg' = [tag |-> tag, ifd_offset |-> ifd_offset]
          /\ ret' = SliceResult(seg, r)
          /\ ret_off' = r.off
  /\ fn' = "read_tag"
  /\ UNCHANGED << jpeg_file, without_exif, runVars >>

\* APP1-less JPEG buffers: the framing cases that hold no EXIF segment
WithoutExifInputs ==
  { SOI \o App0Of(a) \o (IF x THEN APP1_XMP ELSE <<>>) \o t :
      a \in App0Kinds, x \in BOOLEAN, t \in { <<>>, SCAN_TAIL } }

\* print_date's keep_exif branch: clear_orientation(jpeg_binary), then the
\* insertion into the re-read file
CallInsertApp1 ==
  /\ fn = "start"
  /\ clear_orientation(jpeg_file).tag = "Ok"
  /\ \E w \in WithoutExifInputs :
       /\ without_exif' = w
       /\ ret' = splice_app1(w, clear_orientation(jpeg_file).val)
  /\ fn' = "splice_app1"
  /\ UNCHANGED << jpeg_file, arg, ret_off, runVars >>

NextApi ==
  \/ CallGetApp1
  \/ CallNextApp0Index
  \/ CallGetOrientation
  \/ CallGetDateTimeOriginal
  \/ CallClearOrientation
  \/ CallReadTag
  \/ CallInsertApp1

SpecApi == InitApi /\ [][NextApi]_vars

\* ========================================================================
\* Specification Spec: change_names over a directory (main.rs 171-218)
\* ========================================================================
\* The files a directory can hold
DirFiles == Inputs

Init ==
  /\ jpeg_file = <<>>
  /\ fn = "start"
  /\ arg = NoArg
  /\ without_exif = <<>>
  /\ ret = None
  /\ ret_off = 0
  /\ pc = "read_dir"
  /\ args \in [date : BOOLEAN, keep_exif : BOOLEAN]
  /\ remaining = MaxFiles
  /\ date_time = None
  /\ orientation = None
  /\ disk_file = <<>>
  /\ app1_segment = <<>>
  /\ panic = NoPanic

\* A panic unwinds main: the process ends, the remaining entries are not
\* visited (no catch_unwind anywhere in main.rs).
Abort(r) ==
  /\ panic' = [at |-> pc, tag |-> r.tag]
  /\ pc' = "aborted"

\* Mutation: print_date is called whenever the date flag is set
print_date_called_mut(dt, date_flag) == date_flag

\* main.rs 199, 204: `if date_time.is_some() { .. if args.date { print_date(..) } }`
print_date_called(dt, date_flag) == dt.tag = "Some" /\ date_flag

\* main.rs 174-190: a sub-directory (recursion aside) or a file whose
\* extension is not jpg is skipped
SkipEntry ==
  /\ pc = "read_dir"
  /\ remaining > 0
  /\ remaining' = remaining - 1
  /\ UNCHANGED << apiVars, pc, args, date_time, orientation, disk_file,
                  app1_segment, panic >>

\* main.rs 193: the next .jpg file is read
ReadFile ==
  /\ pc = "read_dir"
  /\ remaining > 0
  /\ \E f \in DirFiles :
       /\ jpeg_file' = f
       /\ disk_file' = f
  /\ remaining' = remaining - 1
  /\ pc' = "get_date_time"
  /\ date_time' = None
  /\ orientation' = None
  /\ app1_segment' = <<>>
  /\ UNCHANGED << fn, arg, without_exif, ret, ret_off, args, panic >>

\* main.rs 194-207
GetDateTime ==
  /\ pc = "get_date_time"
  /\ LET r == get_date_time(jpeg_file)
     IN IF IsPanic(r)
        THEN Abort(r) /\ UNCHANGED date_time
        ELSE /\ date_time' = r
             /\ pc' = IF print_date_called(r, args.date) THEN "load_image" ELSE "rename"
             /\ UNCHANGED panic
  /\ UNCHANGED << apiVars, args, remaining, orientation, disk_file, app1_segment >>

\* main.rs 109: image::load_from_memory(jpeg_binary).unwrap(); whether the
\* external decoder accepts the file is not decided by this program
LoadImage ==
  /\ pc = "load_image"
  /\ \/ pc' = "get_orientation" /\ UNCHANGED panic
     \/ Abort(PanicUnwrap)
  /\ UNCHANGED << apiVars, args, remaining, date_time, orientation, disk_file,
                  app1_segment >>

\* main.rs 112-120
GetOrientation ==
  /\ pc = "get_orientation"
  /\ LET r == get_orientation(jpeg_file)
     IN IF IsPanic(r)
        THEN Abort(r) /\ UNCHANGED orientation
        ELSE orientation' = r /\ pc' = "save_image" /\ UNCHANGED panic
  /\ UNCHANGED << apiVars, args, remaining, date_time, disk_file, app1_segment >>

\* main.rs 122-134: the date is drawn and img.save overwrites the file with
\* the encoder's output
SaveImage ==
  /\ pc = "save_image"
  /\ disk_file' \in ReEncoded
  /\ pc' = IF args.keep_exif THEN "clear_orientation" ELSE "rename"
  /\ UNCHANGED << apiVars, args, remaining, date_time, orientation, app1_segment,
                  panic >>

\* main.rs 139
ClearOrientation ==
  /\ pc = "clear_orientation"
  /\ LET r == clear_orientation(jpeg_file)
     IN IF IsPanic(r)
        THEN Abort(r) /\ UNCHANGED app1_segment
        ELSE app1_segment' = r.val /\ pc' = "insert_app1" /\ UNCHANGED panic
  /\ UNCHANGED << apiVars, args, remaining, date_time, orientation, disk_file >>

\* main.rs 141-147: the file is read back, truncated by File::create, and
\* rewritten with the APP1 segment inserted
InsertApp1 ==
  /\ pc = "insert_app1"
  /\ LET r == splice_app1(disk_file, app1_segment)
     IN IF IsPanic(r)
        THEN Abort(r) /\ disk_file' = <<>>
        ELSE disk_file' = r.val /\ pc' = "rename" /\ UNCHANGED panic
  /\ UNCHANGED << apiVars, args, remaining, date_time, orientation, app1_segment >>

\* main.rs 208-214
Rename ==
  /\ pc = "rename"
  /\ pc' = "read_dir"
  \* the loop body ends: its locals are dropped
  /\ jpeg_file' = <<>>
  /\ disk_file' = <<>>
  /\ date_time' = None
  /\ orientation' = None
  /\ app1_segment' = <<>>
  /\ UNCHANGED << fn, arg, without_exif, ret, ret_off, args, remaining, panic >>

\* main.rs 217, 96-97: the loop ends, Ok(()) is returned, "Finish!"
Finish ==
  /\ pc = "read_dir"
  /\ remaining = 0
  /\ pc' = "finished"
  /\ UNCHANGED << apiVars, args, remaining, date_time, orientation, disk_file,
                  app1_segment, panic >>

Next ==
  \/ SkipEntry
  \/ ReadFile
  \/ GetDateTime
  \/ LoadImage
  \/ GetOrientation
  \/ SaveImage
  \/ ClearOrientation
  \/ InsertApp1
  \/ Rename
  \/ Finish

Spec == Init /\ [][Next]_vars

\* ========================================================================
\* Properties
\* ========================================================================
\* The buffer read directly, independently of the scanning code
StartsWithSOI(b) == Len(b) >= 2 /\ b[1] = 255 /\ b[2] = 216
MarkerAt(b, i, m) == i + 2 <= Len(b) /\ b[i + 1] = 255 /\ b[i + 2] = m
IdAt(b, i, id) == i + 9 <= Len(b) /\ Slice(b, i + 4, i + 9) = id
BE16(b, i) == b[i + 1] * 256 + b[i + 2]
MinOf(S) == CHOOSE x \in S : \A y \in S : x <= y
MaxOf(S) == CHOOSE x \in S : \A y \in S : x >= y
\* Offsets of the FFE1 markers followed by "Exif\0"
ExifOffsets(b) ==
  { i \in 0..(Len(b) - 1) : MarkerAt(b, i, 225) /\ IdAt(b, i, EXIF_ID) }
\* Offsets (from 2 on) of the FFE0 markers followed by "JFIF\0"
JfifOffsets(b) ==
  { i \in 2..(Len(b) - 1) : MarkerAt(b, i, 224) /\ IdAt(b, i, JFIF_ID) }

\* Offsets, in a segment, of the tag fields of the IFD at ifd_offset whose
\* tag id is `tag` (the IFD lies inside the segment)
IfdInside(seg, ifd_offset, bo) ==
  /\ InRange(seg, OFFSET_TIFF_HEADER + ifd_offset, OFFSET_TIFF_HEADER + ifd_offset + 2)
  /\ LET n == decode_u16(Slice(seg, OFFSET_TIFF_HEADER + ifd_offset,
                               OFFSET_TIFF_HEADER + ifd_offset + 2), bo)
     IN OFFSET_TIFF_HEADER + ifd_offset + 2 + 12 * n <= Len(seg)
MatchingFields(seg, ifd_offset, tag, bo) ==
  LET base == OFFSET_TIFF_HEADER + ifd_offset
      n == decode_u16(Slice(seg, base, base + 2), bo)
  IN { base + 2 + 12 * k : k \in { j \in 0..(n - 1) :
         Slice(seg, base + 2 + 12 * j, base + 4 + 12 * j) = u16_to_bytes(tag, bo) } }
FieldType(seg, f, bo) == decode_u16(Slice(seg, f + 2, f + 4), bo)
FieldCount(seg, f, bo) == decode_u32(Slice(seg, f + 4, f + 8), bo)
FieldSupported(seg, f, bo) == FieldType(seg, f, bo) \in {ASCII, SHORT, LONG}
FieldBytes(seg, f, bo) ==
  FieldCount(seg, f, bo) *
    (CASE FieldType(seg, f, bo) = ASCII -> 1
       [] FieldType(seg, f, bo) = SHORT -> 2
       [] OTHER -> 4)

\* ---- C1 ----------------------------------------------------------------
\* C1: on every JPEG buffer, get_app1 returns the full segment (marker
\* included, length field + 2 bytes) of the first FFE1 marker followed by
\* "Exif\0"; and on a buffer with no such segment get_app1,
\* get_date_time_original and get_orientation return None, wherever FFE1
\* bytes occur in it, its last bytes included.
C1_FindApp1 ==
  StartsWithSOI(jpeg_file) =>
    /\ fn = "get_app1" =>
         IF ExifOffsets(jpeg_file) = {}
         THEN ret = None
         ELSE LET i == MinOf(ExifOffsets(jpeg_file))
                  L == BE16(jpeg_file, i + 2)
              IN i + L + 2 <= Len(jpeg_file) =>
                   ret = Some(Slice(jpeg_file, i, i + L + 2))
    /\ (fn \in {"get_date_time_original", "get_orientation"}
          /\ ExifOffsets(jpeg_file) = {}) => ret = None

\* ---- C2 ----------------------------------------------------------------
\* What C2 states next_app0_index returns on a buffer starting with FFD8
C2_Expected(b) ==
  IF JfifOffsets(b) = {}
  THEN Ok(<< 2 >>)
  ELSE LET o == MinOf(JfifOffsets(b)) IN Ok(<< o + BE16(b, o + 2) + 2 >>)

\* No FFE0 marker of the buffer is cut short by the end of the buffer: its
\* length field and identifier (7 bytes) follow it.
NoCutApp0(b) ==
  \A i \in 2..(Len(b) - 2) : MarkerAt(b, i, 224) => i + 9 <= Len(b)

C3_MalformedJpeg ==
  (/\ fn \in {"next_app0_index", "get_app1", "get_date_time_original",
              "get_orientation", "clear_orientation"}
   /\ Len(jpeg_file) >= 2
   /\ ~StartsWithSOI(jpeg_file)
   /\ ~IsPanic(ret)) => ret = Err

\* ---- C4 ----------------------------------------------------------------
\* Byte order of a segment, read off its TIFF header
TiffOrder(seg) ==
  IF seg[OFFSET_TIFF_HEADER + 1] = 77 /\ seg[OFFSET_TIFF_HEADER + 2] = 77
  THEN BigEndian ELSE LittleEndian
Ifd0(seg) ==
  decode_u32(Slice(seg, OFFSET_TIFF_HEADER + 4, OFFSET_TIFF_HEADER + 8), TiffOrder(seg))
\* Orientation fields of the 0th IFD
OriFields(seg) == MatchingFields(seg, Ifd0(seg), ORIENTATION, TiffOrder(seg))
\* The Orientation entry lookup resolves: the first field with tag 0x0112,
\* provided its type is one the reader decodes (otherwise: absent)
HasOrientation(seg) ==
  OriFields(seg) # {} /\ FieldSupported(seg, MinOf(OriFields(seg)), TiffOrder(seg))
U16At(seg, o, bo) ==
  IF bo = BigEndian THEN seg[o + 1] * 256 + seg[o + 2] ELSE seg[o + 2] * 256 + seg[o + 1]

\* C4: for every JPEG with an EXIF APP1 segment, clear_orientation returns a
\* copy of the segment, of the same length, that differs from it at most in
\* the 2 value bytes of the Orientation entry of the 0th IFD; these encode 1
\* in the segment's byte order and get_orientation on the copy returns 1;
\* without an Orientation entry the copy equals the segment.
C4_ClearOrientationFrame ==
  (fn = "clear_orientation" /\ ExifOffsets(jpeg_file) # {}) =>
    LET i == MinOf(ExifOffsets(jpeg_file))
        seg == Slice(jpeg_file, i, i + BE16(jpeg_file, i + 2) + 2)
    IN /\ ret.tag = "Ok"
       /\ Len(ret.val) = Len(seg)
       /\ IF HasOrientation(seg)
          THEN LET v == MinOf(OriFields(seg)) + 8
               IN /\ \A k \in 0..(Len(seg) - 1) :
                       k \notin {v, v + 1} => ret.val[k + 1] = seg[k + 1]
                  /\ U16At(ret.val, v, TiffOrder(seg)) = 1
                  /\ get_orientation(ret.val) = Some(<< 1 >>)
          ELSE ret.val = seg

\* A big-endian segment whose Orientation was rewritten
C4_Witness ==
  /\ fn = "clear_orientation"
  /\ ret.tag = "Ok"
  /\ ExifOffsets(jpeg_file) # {}
  /\ TiffOrder(ret.val) = BigEndian
  /\ get_orientation(jpeg_file) = Some(<< 6 >>)
  /\ get_orientation(ret.val) = Some(<< 1 >>)
  /\ get_date_time_original(ret.val) = get_date_time_original(jpeg_file)
  /\ get_date_time_original(ret.val).tag = "Some"

\* ---- C5 ----------------------------------------------------------------
\* C5: the output of the insertion is bytes [0, p) of the APP1-less JPEG,
\* then the APP1 segment, then bytes [p, end), p = next_app0_index of the
\* APP1-less JPEG; its length is the sum of the two lengths; and get_app1 on
\* the output returns a segment byte-identical to the inserted one.
C5_Splice ==
  fn = "splice_app1" =>
    LET seg == clear_orientation(jpeg_file).val
        w == without_exif
        nx == next_app0_index(w)
    IN /\ ret.tag = "Ok"
       /\ nx.tag = "Ok"
       /\ LET q == nx.val[1]
              out == ret.val
          IN /\ Len(out) = Len(w) + Len(seg)
             /\ \A k \in 1..q : out[k] = w[k]
             /\ \A k \in 1..Len(seg) : out[q + k] = seg[k]
             /\ \A k \in (q + 1)..Len(w) : out[Len(seg) + k] = w[k]
             /\ SliceResult(out, get_app1(out)) = Some(seg)

\* An insertion strictly inside the file, after a JFIF segment
C5_Witness ==
  /\ fn = "splice_app1"
  /\ ret.tag = "Ok"
  /\ JfifOffsets(without_exif) # {}
  /\ next_app0_index(without_exif).val[1] > 2
  /\ next_app0_index(without_exif).val[1] < Len(without_exif)
  /\ get_orientation(ret.val) = Some(<< 1 >>)

\* ---- C6 ----------------------------------------------------------------
\* C6: get_orientation returns Some(v) exactly when the 0th IFD has an
\* Orientation entry whose 2-byte value v, decoded in the segment's byte
\* order, lies in 1..8; it returns None when the entry is absent or v is 0
\* or greater than 8.
C6_OrientationDomain ==
  (fn = "get_orientation" /\ ExifOffsets(jpeg_file) # {}) =>
    LET i == MinOf(ExifOffsets(jpeg_file))
        seg == Slice(jpeg_file, i, i + BE16(jpeg_file, i + 2) + 2)
        bo == TiffOrder(seg)
    IN IF ~HasOrientation(seg)
       THEN ret = None
       ELSE LET f == MinOf(OriFields(seg))
                v == U16At(seg, f + 8, bo)
            IN FieldBytes(seg, f, bo) = 2 =>
                 ret = (IF v \in 1..8 THEN Some(<< v >>) ELSE None)

\* The upper edge of the domain is returned
C6_Witness ==
  /\ fn = "get_orientation"
  /\ ExifOffsets(jpeg_file) # {}
  /\ ret = Some(<< 8 >>)

\* ---- C7 ----------------------------------------------------------------
\* C7: an index past the end of a truncated or corrupt buffer never
\* terminates the process: the run is not aborted by the out-of-range
\* panic and goes on to the remaining files.
C7_NoAbortOnOutOfBounds == ~(pc = "aborted" /\ panic.tag = "PanicIndex")

\* ---- C8, C9 ------------------------------------------------------------
\* The segment and byte order CallReadTag passed to read_tag
ArgSeg == App1Of(jpeg_file)
ArgOrder == TiffOrder(ArgSeg)
ArgMatches == MatchingFields(ArgSeg, arg.ifd_offset, arg.tag, ArgOrder)
\* What the field at offset f is to yield: its inline bytes, or the bytes
\* at its value offset
FieldValueOffset(seg, f, bo) ==
  IF FieldBytes(seg, f, bo) <= 4
  THEN f + 8
  ELSE OFFSET_TIFF_HEADER + decode_u32(Slice(seg, f + 8, f + 12), bo)
FieldValue(seg, f, bo) ==
  Slice(seg, FieldValueOffset(seg, f, bo),
        FieldValueOffset(seg, f, bo) + FieldBytes(seg, f, bo))
FieldResult(seg, f, bo) ==
  IF FieldSupported(seg, f, bo) THEN Some(FieldValue(seg, f, bo)) ELSE None

\* C8 (as stated): with two or more fields of the requested tag in the
\* scanned IFD, read_tag returns the value of the last one.
C8_LastMatchWins ==
  (/\ fn = "read_tag"
   /\ IfdInside(ArgSeg, arg.ifd_offset, ArgOrder)
   /\ Cardinality(ArgMatches) >= 2)
    => ret = FieldResult(ArgSeg, MaxOf(ArgMatches), ArgOrder)

\* C8 (amended): with two or more fields of the requested tag in the
\* scanned IFD, read_tag returns what the first one yields: its value, or
\* None when its type is not ASCII, SHORT or LONG.
C8_FirstMatchWins ==
  (/\ fn = "read_tag"
   /\ IfdInside(ArgSeg, arg.ifd_offset, ArgOrder)
   /\ Cardinality(ArgMatches) >= 2)
    => ret = FieldResult(ArgSeg, MinOf(ArgMatches), ArgOrder)

\* Two Orientation fields with different values: the first one is returned
C8_Witness ==
  /\ fn = "read_tag"
  /\ IfdInside(ArgSeg, arg.ifd_offset, ArgOrder)
  /\ Cardinality(ArgMatches) >= 2
  /\ ret.tag = "Some"
  /\ FieldResult(ArgSeg, MinOf(ArgMatches), ArgOrder)
       # FieldResult(ArgSeg, MaxOf(ArgMatches), ArgOrder)

\* C9: for a matching field of type ASCII, SHORT or LONG, read_tag returns
\* the first value_bytes bytes of the field's last 4 bytes when
\* value_bytes <= 4, and otherwise the value_bytes bytes at offset
\* 10 + (the 4-byte offset stored in the field's last 4 bytes).
C9_InlineOrIndirect ==
  (/\ fn = "read_tag"
   /\ IfdInside(ArgSeg, arg.ifd_offset, ArgOrder)
   /\ ArgMatches # {}
   /\ FieldSupported(ArgSeg, MinOf(ArgMatches), ArgOrder))
    => LET f == MinOf(ArgMatches)
       IN /\ ret = Some(FieldValue(ArgSeg, f, ArgOrder))
          /\ ret_off = FieldValueOffset(ArgSeg, f, ArgOrder)
          /\ FieldBytes(ArgSeg, f, ArgOrder) <= 4 => ret_off = f + 8
          /\ FieldBytes(ArgSeg, f, ArgOrder) > 4 => ret_off >= Ifd0(ArgSeg) + OFFSET_TIFF_HEADER

\* A 5-byte value read through its offset
C9_Witness ==
  /\ fn = "read_tag"
  /\ arg.tag = MAKE
  /\ ret = Some(MAKE5_VALUE)

\* A 4-byte value read from the field itself
C9_WitnessInline ==
  /\ fn = "read_tag"
  /\ arg.tag = MAKE
  /\ ret = Some(MAKE4_VALUE)

\* ---- C10 ---------------------------------------------------------------
\* C10: clear_orientation is only reached for a buffer on which
\* get_date_time_original returned Some, hence on which get_app1 returns
\* Some: the unwrap in clear_orientation never meets None.
C10_ClearOrientationHasApp1 ==
  /\ pc = "clear_orientation" =>
       /\ date_time.tag = "Some"
       /\ get_date_time_original(jpeg_file).tag = "Some"
       /\ get_app1(jpeg_file).tag = "Some"
  /\ ~(panic.at = "clear_orientation" /\ panic.tag = "PanicUnwrap")

\* clear_orientation ran in print_date and returned the segment
C10_Witness ==
  /\ pc = "insert_app1"
  /\ args.date /\ args.keep_exif
  /\ Len(app1_segment) > 0

====
